---------------------------- MODULE Spec2Model ----------------------------
(***************************************************************************)
(* Model of src/analyzer.py: analyze_immunization_data(file_path), the     *)
(* single linear pipeline load -> clean -> aggregate -> trend-select ->    *)
(* render, wrapped in one try block whose only handler is                  *)
(* `except FileNotFoundError`.                                             *)
(*                                                                         *)
(* A table row is a record [Vaccine, COUNTRY, YEAR, COVERAGE]; the values  *)
(* of the auxiliary columns are not read by the program and are left out,  *)
(* but the set of column names (the header) is kept.  Country identifiers   *)
(* are naturals whose numeric order stands for the lexical order of the    *)
(* country names.  A group mean is kept as the exact fraction num/den;     *)
(* for the small integer coverages used here float64 division orders and   *)
(* equates means exactly as the fractions do.                              *)
(***************************************************************************)
EXTENDS Integers, Sequences, FiniteSets

\* ---------------------------------------------------------------- bounds
MaxRows == 2          \* longest free-form input table
MaxCountries == 11    \* most countries in a one-row-per-country input table

\* ------------------------------------------------------ program constants
NaN == -1             \* a missing COVERAGE cell (pandas NaN)
TopN == 10            \* .head(10)
TrendK == 3           \* .index[:3]

RequiredCols == {"Vaccine", "COUNTRY", "YEAR", "COVERAGE"}
cols_to_drop == {"WHO_REGION", "ISO_CODE", "DATA_SOURCE"}

\* ------------------------------------------------------------ input sets
Vaccines == {"DTP3", "MCV1"}
Years == {2000, 2001}
Coverages == {NaN, 40, 60}
Paths == {1, 2}       \* 1 stands for the default 'immunization_coverage.csv'
Row(v, c, y, m) == [Vaccine |-> v, COUNTRY |-> c, YEAR |-> y, COVERAGE |-> m]
RowDomain == {Row(v, c, y, m) : v \in Vaccines, c \in {1, 2}, y \in Years, m \in Coverages}
SeqsUpTo(S, n) == UNION {[1..k -> S] : k \in 0..n}

\* One DTP3 row per country 1..k, after at most one free-form row.  The shape
\* fixes the coverages: rising or falling with the identifier, rising with
\* every third one missing, or equal for the two countries of a pair.
Shapes == {"rising", "falling", "gaps", "pairs"}
ShapeCoverage(shape, c) ==
    CASE shape = "rising"  -> 2 * c
      [] shape = "falling" -> 100 - 2 * c
      [] shape = "gaps"    -> IF c % 3 = 0 THEN NaN ELSE 2 * c
      [] shape = "pairs"   -> 50 + 2 * ((c + 1) \div 2)
Bulk(k, shape, reversed) ==
    [i \in 1..k |-> LET c == IF reversed THEN k + 1 - i ELSE i
                    IN Row("DTP3", c, 2000, ShapeCoverage(shape, c))]
InputTables ==
    SeqsUpTo(RowDomain, MaxRows)
    \cup {e \o Bulk(k, s, rev) : e \in {<<>>} \cup {<<r>> : r \in RowDomain}, k \in 3..MaxCountries,
                                  s \in Shapes, rev \in BOOLEAN}
InputHeaders == {RequiredCols \cup d : d \in SUBSET cols_to_drop}

\* ----------------------------------------------------------------- state
VARIABLES
    file_path,      \* the argument of analyze_immunization_data
    file_exists,    \* whether file_path resolves to an existing file
    csv_header,     \* the header of that file
    csv_rows,       \* the rows of that file
    pc,             \* the next stage of the run
    df,             \* the loaded table
    df_dtp,         \* the filtered / cleaned table
    columns,        \* the columns of df_dtp
    rows_dropped,
    avg_coverage_by_country,
    lowest_coverage_countries,
    countries_to_plot,
    df_trend,
    out,            \* lines printed, each <<source line of the print, arguments>>
    image,          \* "absent" or "written": the file at output_plot_path
    outcome,        \* "running", "returned" (the value is None) or "raised"
    exc             \* the exception that left the function, or "none"

vars == <<file_path, file_exists, csv_header, csv_rows, pc, df, df_dtp, columns,
          rows_dropped, avg_coverage_by_country, lowest_coverage_countries,
          countries_to_plot, df_trend, out, image, outcome, exc>>

input == <<file_path, file_exists, csv_header, csv_rows>>

\* --------------------------------------------------------- pure helpers
Min(a, b) == IF a <= b THEN a ELSE b

\* A boolean mask t[mask] is SelectSeq: the rows of t that satisfy the test,
\* in their order in t.

\* df[df['Vaccine'] == 'DTP3']
FilterVaccineAll(t) == t
FilterVaccine(t) == SelectSeq(t, LAMBDA r : r.Vaccine = "DTP3")

\* df_dtp.dropna(subset=['COVERAGE'])
DropNaNone(t) == t
DropNa(t) == SelectSeq(t, LAMBDA r : r.COVERAGE # NaN)

\* initial_rows - df_dtp.shape[0]
RowsDroppedFromInput(loaded, filtered, cleaned) == Len(loaded) - Len(cleaned)
RowsDropped(loaded, filtered, cleaned) == Len(filtered) - Len(cleaned)

RECURSIVE SumCoverage(_)
SumCoverage(t) == IF t = <<>> THEN 0 ELSE Head(t).COVERAGE + SumCoverage(Tail(t))

\* groupby('COUNTRY')['COVERAGE'].mean(): one entry per country of t
GroupOf(t, c) == SelectSeq(t, LAMBDA r : r.COUNTRY = c)
GroupMean(t, c) ==
    [COUNTRY |-> c, num |-> SumCoverage(GroupOf(t, c)), den |-> Len(GroupOf(t, c))]
GroupMeans(t) == {GroupMean(t, r.COUNTRY) : r \in {t[i] : i \in 1..Len(t)}}

MeanLess(a, b) == a.num * b.den < b.num * a.den
MeanEq(a, b) == a.num * b.den = b.num * a.den

\* sort_values(ascending=True) with the default kind='quicksort', which is
\* not a stable sort: every order that is ascending by mean is a possible
\* result, whatever the order of the groups with equal means.
RECURSIVE SortValues(_)
SortValues(G) ==
    IF G = {} THEN {<<>>}
    ELSE UNION {{<<g>> \o s : s \in SortValues(G \ {g})} :
                g \in {x \in G : \A y \in G : ~MeanLess(y, x)}}

\* .head(n) and .index[:n]
HeadAll(s, n) == s
HeadN(s, n) == SubSeq(s, 1, Min(n, Len(s)))

Index(s) == [i \in 1..Len(s) |-> s[i].COUNTRY]
Range(s) == {s[i] : i \in 1..Len(s)}

\* df_dtp[df_dtp['COUNTRY'].isin(countries_to_plot)]
IsInFirst(t, ids) == SelectSeq(t, LAMBDA r : ids # <<>> /\ r.COUNTRY = ids[1])
IsIn(t, ids) == SelectSeq(t, LAMBDA r : r.COUNTRY \in Range(ids))

\* the except FileNotFoundError block
NotFoundBanner(path) == <<<<25, <<>>>>, <<88, <<path>>>>, <<89, <<>>>>>>
NotFoundLines(path) == <<<<88, <<path>>>>, <<89, <<>>>>>>

\* ------------------------------------------------------------------ Init
Init ==
    /\ \/ /\ file_exists = FALSE
          /\ file_path \in Paths
          /\ csv_header = {}
          /\ csv_rows = <<>>
       \/ /\ file_exists = TRUE
          /\ file_path = 1
          /\ csv_header \in InputHeaders
          /\ csv_rows \in InputTables
    /\ pc = "load"
    /\ df = <<>>
    /\ df_dtp = <<>>
    /\ columns = {}
    /\ rows_dropped = 0
    /\ avg_coverage_by_country = <<>>
    /\ lowest_coverage_countries = <<>>
    /\ countries_to_plot = <<>>
    /\ df_trend = <<>>
    /\ out = <<>>
    /\ image = "absent"
    /\ outcome = "running"
    /\ exc = "none"

\* --------------------------------------------------------------- actions
\* pd.read_csv succeeds, and the two prints after it
Load ==
    /\ pc = "load" /\ outcome = "running"
    /\ file_exists
    /\ df' = csv_rows
    /\ out' = out \o <<<<25, <<>>>>, <<26, <<Len(csv_rows), Cardinality(csv_header)>>>>>>
    /\ pc' = "clean"
    /\ UNCHANGED <<input, df_dtp, columns, rows_dropped, avg_coverage_by_country,
                   lowest_coverage_countries, countries_to_plot, df_trend, image,
                   outcome, exc>>

\* pd.read_csv raises FileNotFoundError, the handler prints and returns None
LoadNotFound ==
    /\ pc = "load" /\ outcome = "running"
    /\ ~file_exists
    /\ out' = out \o NotFoundLines(file_path)
    /\ outcome' = "returned"
    /\ pc' = "done"
    /\ UNCHANGED <<input, df, df_dtp, columns, rows_dropped, avg_coverage_by_country,
                   lowest_coverage_countries, countries_to_plot, df_trend, image, exc>>

\* the cleaning stage, every dropped column being in the header
Clean ==
    /\ pc = "clean" /\ outcome = "running"
    /\ cols_to_drop \subseteq csv_header
    /\ df_dtp' = DropNa(FilterVaccine(df))
    /\ columns' = csv_header \ cols_to_drop
    /\ rows_dropped' = RowsDropped(df, FilterVaccine(df), DropNa(FilterVaccine(df)))
    /\ out' = out \o <<<<29, <<>>>>,
                       <<42, <<RowsDropped(df, FilterVaccine(df), DropNa(FilterVaccine(df)))>>>>,
                       <<43, <<Len(DropNa(FilterVaccine(df)))>>>>>>
    /\ pc' = "aggregate"
    /\ UNCHANGED <<input, df, avg_coverage_by_country, lowest_coverage_countries,
                   countries_to_plot, df_trend, image, outcome, exc>>

\* df_dtp.drop(columns=cols_to_drop) with the default errors='raise': a
\* label that is not a column raises KeyError, which no handler catches
CleanKeyError ==
    /\ pc = "clean" /\ outcome = "running"
    /\ ~(cols_to_drop \subseteq csv_header)
    /\ df_dtp' = FilterVaccine(df)
    /\ columns' = csv_header
    /\ out' = out \o <<<<29, <<>>>>>>
    /\ outcome' = "raised"
    /\ exc' = "KeyError"
    /\ pc' = "done"
    /\ UNCHANGED <<input, df, rows_dropped, avg_coverage_by_country,
                   lowest_coverage_countries, countries_to_plot, df_trend, image>>

Aggregate ==
    /\ pc = "aggregate" /\ outcome = "running"
    /\ \E sorted \in SortValues(GroupMeans(df_dtp)) :
          /\ avg_coverage_by_country' = sorted
          /\ lowest_coverage_countries' = HeadN(sorted, TopN)
          /\ out' = out \o <<<<47, <<>>>>, <<53, <<>>>>,
                             <<54, Index(HeadN(sorted, TopN))>>, <<55, <<>>>>>>
    /\ pc' = "trend"
    /\ UNCHANGED <<input, df, df_dtp, columns, rows_dropped, countries_to_plot,
                   df_trend, image, outcome, exc>>

TrendSelect ==
    /\ pc = "trend" /\ outcome = "running"
    /\ countries_to_plot' = HeadN(Index(lowest_coverage_countries), TrendK)
    /\ df_trend' = IsIn(df_dtp, HeadN(Index(lowest_coverage_countries), TrendK))
    /\ out' = out \o <<<<62, HeadN(Index(lowest_coverage_countries), TrendK)>>>>
    /\ pc' = "render"
    /\ UNCHANGED <<input, df, df_dtp, columns, rows_dropped, avg_coverage_by_country,
                   lowest_coverage_countries, image, outcome, exc>>

\* the plot is drawn and plt.savefig writes the image
Render ==
    /\ pc = "render" /\ outcome = "running"
    /\ image' = "written"
    /\ out' = out \o <<<<82, <<>>>>, <<83, <<>>>>, <<84, <<>>>>>>
    /\ outcome' = "returned"
    /\ pc' = "done"
    /\ UNCHANGED <<input, df, df_dtp, columns, rows_dropped, avg_coverage_by_country,
                   lowest_coverage_countries, countries_to_plot, df_trend, exc>>

\* plt.savefig fails with an error that is no FileNotFoundError (the
\* directory is not writable): it leaves the function
RenderWriteRaises ==
    /\ pc = "render" /\ outcome = "running"
    /\ outcome' = "raised"
    /\ exc' = "PermissionError"
    /\ pc' = "done"
    /\ UNCHANGED <<input, df, df_dtp, columns, rows_dropped, avg_coverage_by_country,
                   lowest_coverage_countries, countries_to_plot, df_trend, out, image>>

\* plt.savefig fails with FileNotFoundError (output_plot_path is a dangling
\* link, or the working directory is gone): it is raised inside the try
\* block, so the handler of the missing input file catches it
RenderWriteNotFound ==
    /\ pc = "render" /\ outcome = "running"
    /\ out' = out \o NotFoundLines(file_path)
    /\ outcome' = "returned"
    /\ pc' = "done"
    /\ UNCHANGED <<input, df, df_dtp, columns, rows_dropped, avg_coverage_by_country,
                   lowest_coverage_countries, countries_to_plot, df_trend, image, exc>>

Next ==
    \/ Load
    \/ LoadNotFound
    \/ Clean
    \/ CleanKeyError
    \/ Aggregate
    \/ TrendSelect
    \/ Render
    \/ RenderWriteRaises
    \/ RenderWriteNotFound

Spec == Init /\ [][Next]_vars

\* ------------------------------------------------- what the run has done
Printed(n) == \E i \in 1..Len(out) : out[i][1] = n
Cleaned == Printed(43)        \* the cleaning stage has completed
Aggregated == Printed(55)     \* the ranked list has been computed
Selected == Printed(62)       \* the trend table has been computed

Count(t, r) == Cardinality({i \in 1..Len(t) : t[i] = r})
Matching(t) == {i \in 1..Len(t) : t[i].Vaccine = "DTP3"}
MatchingMissing(t) == {i \in Matching(t) : t[i].COVERAGE = NaN}
Countries(t) == {t[i].COUNTRY : i \in 1..Len(t)}
FirstK(s, k) == {s[i].COUNTRY : i \in {j \in 1..Len(s) : j <= k}}

\* ---------------------------------------------------------------- claims

\* C1: the cleaned table holds only rows whose Vaccine is 'DTP3' and whose
\* COVERAGE is present, and every input row with Vaccine 'DTP3' and a
\* present COVERAGE is in it, as many times as in the input.
C1_FilterCorrect ==
    Cleaned =>
        /\ \A i \in 1..Len(df_dtp) :
              df_dtp[i].Vaccine = "DTP3" /\ df_dtp[i].COVERAGE # NaN
        /\ \A r \in Range(csv_rows) :
              (r.Vaccine = "DTP3" /\ r.COVERAGE # NaN)
                  => Count(df_dtp, r) = Count(csv_rows, r)
C1_Witness ==
    /\ Cleaned
    /\ df_dtp # <<>>
    /\ \E r \in Range(csv_rows) : r.Vaccine # "DTP3"
    /\ MatchingMissing(csv_rows) # {}

\* C2: the ranked list is ascending by group mean, and two groups with equal
\* means appear in ascending order of their identifier.
C2_RankedByMeanThenId ==
    Aggregated =>
        \A i, j \in 1..Len(avg_coverage_by_country) :
            i < j =>
                LET a == avg_coverage_by_country[i]
                    b == avg_coverage_by_country[j]
                IN \/ MeanLess(a, b)
                   \/ MeanEq(a, b) /\ a.COUNTRY < b.COUNTRY

\* C3: the lowest-coverage list has exactly min(10, number of groups of the
\* cleaned table) entries, never more than 10, and holds every group when
\* there are fewer than 10.
C3_BoundRespected ==
    Aggregated =>
        /\ Len(lowest_coverage_countries) = Min(TopN, Cardinality(Countries(df_dtp)))
        /\ Len(lowest_coverage_countries) <= TopN
        /\ Cardinality(Countries(df_dtp)) < TopN
              => Countries(lowest_coverage_countries) = Countries(df_dtp)
C3_Witness ==
    /\ Aggregated
    /\ Cardinality(Countries(df_dtp)) > TopN
    /\ Len(lowest_coverage_countries) = TopN

\* C4: with a path that is no existing file, the run prints exactly the two
\* diagnostic lines, the first naming the path, returns None without
\* raising, prints no report line and writes no image.
C4_MissingFile ==
    ~file_exists =>
        /\ outcome # "raised" /\ exc = "none"
        /\ image = "absent"
        /\ out \in {<<>>, <<<<88, <<file_path>>>>, <<89, <<>>>>>>}
        /\ pc = "done" =>
              /\ out = <<<<88, <<file_path>>>>, <<89, <<>>>>>>
              /\ outcome = "returned"
C4_Witness == ~file_exists /\ pc = "done" /\ file_path = 2 /\ Len(out) = 2

\* C5: a field of WHO_REGION, ISO_CODE, DATA_SOURCE that is absent from the
\* header is ignored: cleaning raises no error, removes the fields that are
\* present, and the run goes on to aggregation.
C5_AbsentFieldIgnored ==
    (Printed(29) /\ pc # "clean") =>
        /\ exc # "KeyError"
        /\ Cleaned
        /\ columns = csv_header \ cols_to_drop

\* C6: when no input row has Vaccine 'DTP3' and a present COVERAGE, the
\* cleaned table is empty, the aggregation and the trend selection go
\* through without an error, and the ranked list, the selected countries and
\* the trend table are empty.
C6_EmptyInput ==
    (Cleaned /\ Matching(csv_rows) = MatchingMissing(csv_rows)) =>
        /\ df_dtp = <<>>
        /\ pc = "aggregate" => outcome = "running" /\ ENABLED Aggregate
        /\ pc = "trend" => outcome = "running" /\ ENABLED TrendSelect
        /\ Aggregated =>
              avg_coverage_by_country = <<>> /\ lowest_coverage_countries = <<>>
        /\ Selected => countries_to_plot = <<>> /\ df_trend = <<>>
C6_Witness ==
    /\ Selected
    /\ df_dtp = <<>>
    /\ MatchingMissing(csv_rows) # {}
    /\ \E r \in Range(csv_rows) : r.Vaccine # "DTP3"

\* C7: the trend table holds exactly the cleaned rows whose country is one
\* of the first 3 entries of the ranked list (all of them when it has fewer),
\* each as many times as in the cleaned table, and no other row.
C7_TrendSubset ==
    Selected =>
        /\ Range(countries_to_plot) = FirstK(lowest_coverage_countries, TrendK)
        /\ \A r \in Range(df_dtp) \cup Range(df_trend) :
              Count(df_trend, r) =
                  IF r.COUNTRY \in FirstK(lowest_coverage_countries, TrendK)
                  THEN Count(df_dtp, r) ELSE 0
C7_Witness ==
    /\ Selected
    /\ Cardinality(Countries(df_dtp)) > TrendK
    /\ Cardinality(Countries(df_trend)) = TrendK
    /\ \E i, j \in 1..Len(df_trend) :
          /\ i < j
          /\ df_trend[i].COUNTRY = df_trend[j].COUNTRY
          /\ df_trend[i].YEAR = df_trend[j].YEAR

\* C8: in the trend table the rows of each selected country are in ascending
\* order of YEAR.
C8_SeriesOrderedByPeriod ==
    Selected =>
        \A i, j \in 1..Len(df_trend) :
            (i < j /\ df_trend[i].COUNTRY = df_trend[j].COUNTRY)
                => df_trend[i].YEAR <= df_trend[j].YEAR

\* C9: the run is one pass load, clean, aggregate, trend-select, render; the
\* image is written only after every earlier stage, a stage that fails ends
\* the run, and a failure to write the image leaves the function as an
\* exception: it never ends in the missing-input diagnostic and a return.
C9_SinglePassWriteFailurePropagates ==
    /\ \A i, j \in 1..Len(out) : i < j => out[i][1] < out[j][1]
    /\ image = "written" => Printed(26) /\ Cleaned /\ Aggregated /\ Selected
    /\ outcome = "raised" => pc = "done" /\ image = "absent"
    /\ exc = "KeyError" => ~Cleaned /\ ~Aggregated /\ ~Selected
    /\ (pc = "done" /\ Selected /\ image = "absent") =>
          outcome = "raised" /\ ~Printed(88)

\* C10: the rows-dropped count that is reported is the number of input rows
\* with Vaccine 'DTP3' and a missing COVERAGE, and the cleaned rows plus the
\* dropped rows are the input rows with Vaccine 'DTP3'.
C10_RowsDropped ==
    Cleaned =>
        /\ rows_dropped = Cardinality(MatchingMissing(csv_rows))
        /\ Len(df_dtp) + rows_dropped = Cardinality(Matching(csv_rows))
        /\ \E i \in 1..Len(out) : out[i] = <<42, <<rows_dropped>>>>
C10_Witness ==
    /\ Cleaned
    /\ rows_dropped > 0
    /\ df_dtp # <<>>
    /\ \E r \in Range(csv_rows) : r.Vaccine # "DTP3"

=============================================================================
